---- MODULE Spec2Model ----
(***************************************************************************)
(* Model of scripts/analysis.py: the cleaner (clean_data), the two plot    *)
(* routines (plot_wind_analysis, plot_temperature_analysis) and the driver *)
(* (main) that walks the data folder.                                      *)
(*                                                                         *)
(* A table (pandas DataFrame) is a record [cols, rows]: cols is the set of *)
(* column names, rows the sequence of rows, each row a function from cols  *)
(* to cells.  A cell is a record [t, v]: t is "num" (a number, v), "nan"   *)
(* (a missing value), "str" (a non-numeric value of a badly formed file)   *)
(* or "bool" (a truth value, v = 1 or 0).                                  *)
(*                                                                         *)
(* A file name is the sequence of its '.'-separated components, which is   *)
(* what str.split('.') returns: "a.b.csv" is <<"a", "b", "csv">>.          *)
(*                                                                         *)
(* An output path is the pair <<base, kind>> standing for                  *)
(* results/{base}_{kind}.png.  The four kinds end in different characters, *)
(* so two paths are the same string exactly when base and kind agree.      *)
(***************************************************************************)
EXTENDS Integers, Sequences, FiniteSets

VARIABLES dir, idx, pc, raw, df, wdf, frequency, writes, log

vars == <<dir, idx, pc, raw, df, wdf, frequency, writes, log>>

(* ------------------------------ bounds -------------------------------- *)

MaxFiles == 2

MaxRows == 2

MaxCleanRows == 2

MaxWindRows == 2

(* ------------------------------- cells -------------------------------- *)

Num(n) == [t |-> "num", v |-> n]

NaN == [t |-> "nan", v |-> 0]

Str == [t |-> "str", v |-> 0]

Bool(b) == [t |-> "bool", v |-> IF b THEN 1 ELSE 0]

IsNum(c) == c.t = "num"

\* x < 0 on a numeric cell; a comparison with NaN is False
Lt0(c) == IsNum(c) /\ c.v < 0

\* x >= 0 as Python/IEEE evaluates it: False for NaN
Ge0(c) == IsNum(c) /\ c.v >= 0

\* truth value of a Cleaning cell (0, False -> false; True -> true)
Truthy(c) == c.v # 0

\* max(x, 0): Python returns the first argument unless a later one is
\* greater than it, so max(nan, 0) is nan
Max0Neg(c) == IF IsNum(c) /\ c.v > 0 THEN c ELSE Num(0)

Min0(c) == IF IsNum(c) /\ 0 < c.v THEN Num(0) ELSE c

Max0(c) == IF IsNum(c) /\ 0 > c.v THEN Num(0) ELSE c

\* Series | Series of booleans, element by element; the result is boolean
OrFlagLast(c, b) == Bool(b)

OrFlag(c, b) == Bool(Truthy(c) \/ b)

(* ------------------------------ cleaner ------------------------------- *)

columns_to_clean == <<"GHI", "DNI", "DHI", "ModA", "ModB", "WS", "WSgust", "RH">>

NoTable == [cols |-> {}, rows |-> <<>>]

\* df['Cleaning'] = 0
AddCleaning(t) ==
    [cols |-> t.cols \cup {"Cleaning"},
     rows |-> [r \in 1..Len(t.rows) |->
                 [c \in t.cols \cup {"Cleaning"} |->
                     IF c = "Cleaning" THEN Num(0) ELSE t.rows[r][c]]]]

\* body of the loop for one column
CleanColumn(t, column) ==
    IF column \in t.cols
    THEN [t EXCEPT !.rows =
            [r \in 1..Len(t.rows) |->
                [t.rows[r] EXCEPT
                    !["Cleaning"] = OrFlag(t.rows[r]["Cleaning"], Lt0(t.rows[r][column])),
                    ![column] = Max0(t.rows[r][column])]]]
    ELSE t

RECURSIVE CleanLoop(_, _)
CleanLoop(t, k) ==
    IF k > Len(columns_to_clean) THEN t
    ELSE CleanLoop(CleanColumn(t, columns_to_clean[k]), k + 1)

\* the table clean_data returns (when no comparison raises)
clean_data(t) == CleanLoop(AddCleaning(t), 1)

\* df[column] < 0 raises TypeError on a column holding a non-numeric value
CleanRaises(t) ==
    \E k \in 1..Len(columns_to_clean) :
        /\ columns_to_clean[k] \in t.cols
        /\ \E r \in 1..Len(t.rows) : t.rows[r][columns_to_clean[k]].t = "str"

(* --------------------------- wind analysis ---------------------------- *)

\* df.dropna(subset=['WS', 'WD']): a new table without the rows whose WS
\* or WD is missing; the argument is left as it is
DropNa(t) == SelectSeq(t.rows, LAMBDA row : row["WS"].t # "nan" /\ row["WD"].t # "nan")

\* df.dropna(subset=['WS', 'WD']) raises KeyError when a column of the
\* subset is not in the table
DropNaRaises(t) == ~({"WS", "WD"} \subseteq t.cols)

\* bin_edges = np.linspace(0, 360, 13): the edge of index k (0-based)
NumBins == 12

BinWidth == 30

bin_edges(k) == k * BinWidth

\* pd.cut(x, bins, include_lowest=True), right=True by default: the bin of x
\* is the first k with x <= bin_edges[k] (searchsorted, side='left'); an x
\* equal to the lowest edge is put in bin 1; an x below the lowest or above
\* the highest edge gets no bin (0 here)
CutLeftClosed(x) ==
    IF x < bin_edges(0) \/ x > bin_edges(NumBins) THEN 0
    ELSE IF x = bin_edges(NumBins) THEN NumBins
    ELSE CHOOSE k \in 1..NumBins : bin_edges(k - 1) <= x /\ x < bin_edges(k)

Cut(x) ==
    IF x < bin_edges(0) \/ x > bin_edges(NumBins) THEN 0
    ELSE IF x = bin_edges(0) THEN 1
    ELSE CHOOSE k \in 1..NumBins : bin_edges(k - 1) < x /\ x <= bin_edges(k)

\* wind_direction_bins.value_counts(sort=False): one count per label, in
\* the order of the labels
ValueCounts(rows) ==
    [k \in 1..NumBins |-> Cardinality({r \in 1..Len(rows) : Cut(rows[r]["WD"].v) = k})]

NoFrequency == [k \in 1..NumBins |-> 0]

\* a non-numeric WD reaches WindroseAxes.bar and pd.cut, which raise on it
HasStrWD(rows) == \E r \in 1..Len(rows) : rows[r]["WD"].t = "str"

(* ------------------------------ file names ---------------------------- *)

\* file_name.endswith(".csv")
EndsWithCsv(name) == Len(name) >= 2 /\ name[Len(name)] = "csv"

\* os.path.basename(file_path).split('.')[0]
BaseName(name) == name[1]

WindKinds == {"wind_rose", "wind_direction_variability"}

TempKinds == {"RH_vs_Temperature", "RH_vs_SolarRadiation"}

(* ------------------------------- inputs ------------------------------- *)

\* names a data folder may hold: a.csv, a.b.csv, b.csv, notes.txt
FileNames == {<<"a", "csv">>, <<"a", "b", "csv">>, <<"b", "csv">>, <<"notes", "txt">>}

\* os.listdir returns the names of the folder, each once, in any order
Listings ==
    {d \in UNION {[1..n -> FileNames] : n \in 0..MaxFiles} :
        \A i, j \in 1..Len(d) : i # j => d[i] # d[j]}

\* columns a file of the driver runs may have
WindCols == {"WS", "WD"}

TempCols == {"RH", "ModA", "ModB", "GHI"}

\* pd.read_csv returns no table without a column (it raises on an empty file)
ColumnSets == {W \cup T : W \in SUBSET WindCols, T \in SUBSET TempCols} \ {{}}

\* rows a file of the driver runs may hold: a row with a negative reading,
\* a row with missing readings, and a row of a badly formed file
SampleRows ==
    { [c \in WindCols \cup TempCols |->
         CASE c = "GHI" -> Num(-50) [] c = "WD" -> Num(45) [] c = "WS" -> Num(3)
           [] c = "RH" -> Num(40) [] c = "ModA" -> Num(25) [] c = "ModB" -> Num(26)],
      [c \in WindCols \cup TempCols |->
         CASE c = "GHI" -> Num(0) [] c = "WD" -> Num(30) [] c = "WS" -> NaN
           [] c = "RH" -> Num(-1) [] c = "ModA" -> NaN [] c = "ModB" -> Num(0)],
      [c \in WindCols \cup TempCols |->
         CASE c = "GHI" -> Num(700) [] c = "WD" -> Str [] c = "WS" -> Num(0)
           [] c = "RH" -> Num(55) [] c = "ModA" -> Str [] c = "ModB" -> Num(30)] }

Project(row, cols) == [c \in cols |-> row[c]]

TablesOver(colsets, rowset, maxrows) ==
    {[cols |-> C, rows |-> [r \in 1..Len(full) |-> Project(full[r], C)]] :
        C \in colsets, full \in UNION {[1..n -> rowset] : n \in 0..maxrows}}

\* tables pd.read_csv may return in the driver runs
Tables == TablesOver(ColumnSets, SampleRows, MaxRows)

(* ------------------------------- driver ------------------------------- *)

\* the step of main that has just ended, on which file, and how: "ok",
\* "saved" and "skipped" (the messages the plot routines print) or "raise"
Event(i, step, outcome) == <<i, step, outcome>>

\* main has no try/except: an exception raised by a step ends the run
AfterRaiseCaught == "iter"

AfterRaise == "failed"

Init ==
    /\ dir \in Listings
    /\ idx = 1
    /\ pc = "iter"
    /\ raw = NoTable
    /\ df = NoTable
    /\ wdf = <<>>
    /\ frequency = NoFrequency
    /\ writes = {}
    /\ log = <<>>

\* for file_name in os.listdir(DATA_FOLDER): no name is left
Finish ==
    /\ pc = "iter"
    /\ idx > Len(dir)
    /\ pc' = "done"
    /\ UNCHANGED <<dir, idx, raw, df, wdf, frequency, writes, log>>

\* if file_name.endswith(".csv") is false: on to the next name
SkipFile ==
    /\ pc = "iter"
    /\ idx <= Len(dir)
    /\ ~EndsWithCsv(dir[idx])
    /\ idx' = idx + 1
    /\ UNCHANGED <<dir, pc, raw, df, wdf, frequency, writes, log>>

\* df = pd.read_csv(file_path)
Load ==
    /\ pc = "iter"
    /\ idx <= Len(dir)
    /\ EndsWithCsv(dir[idx])
    /\ \E t \in Tables :
          /\ raw' = t
          /\ df' = t
    /\ pc' = "clean"
    /\ log' = Append(log, Event(idx, "load", "ok"))
    /\ UNCHANGED <<dir, idx, wdf, frequency, writes>>

\* pd.read_csv raises on a file it cannot parse; main catches nothing
LoadFail ==
    /\ pc = "iter"
    /\ idx <= Len(dir)
    /\ EndsWithCsv(dir[idx])
    /\ pc' = AfterRaise
    /\ log' = Append(log, Event(idx, "load", "raise"))
    /\ UNCHANGED <<dir, idx, raw, df, wdf, frequency, writes>>

\* df = clean_data(df)
Clean ==
    /\ pc = "clean"
    /\ ~CleanRaises(df)
    /\ df' = clean_data(df)
    /\ pc' = "wind"
    /\ log' = Append(log, Event(idx, "clean", "ok"))
    /\ UNCHANGED <<dir, idx, raw, wdf, frequency, writes>>

CleanFail ==
    /\ pc = "clean"
    /\ CleanRaises(df)
    /\ pc' = AfterRaise
    /\ log' = Append(log, Event(idx, "clean", "raise"))
    /\ UNCHANGED <<dir, idx, raw, df, wdf, frequency, writes>>

\* the table main holds after plot_wind_analysis(df, base_name) returns:
\* line 80 rebinds the parameter to a new table, the caller's is untouched
CallerTableInPlace(t, kept) == [t EXCEPT !.rows = kept]

CallerTable(t, kept) == t

OutPath(name, kind) == <<BaseName(name), kind>>

\* plot_wind_analysis: 'WS' or 'WD' column missing
WindSkipsOnlyWS(t) == "WS" \notin t.cols

WindSkips(t) == "WS" \notin t.cols \/ "WD" \notin t.cols

\* the rows plot_wind_analysis works on
WindRows(t) == IF DropNaRaises(t) THEN <<>> ELSE DropNa(t)

\* the library calls of plot_wind_analysis raise: WindroseAxes.bar and
\* pd.cut on a non-numeric WD; WindroseAxes.bar, possibly, on no row at all
WindMustRaise(t) == DropNaRaises(t) \/ HasStrWD(DropNa(t))

WindMayRaise(t) == WindMustRaise(t) \/ DropNa(t) = <<>>

WindSkip ==
    /\ pc = "wind"
    /\ WindSkips(df)
    /\ pc' = "temp"
    /\ log' = Append(log, Event(idx, "wind", "skipped"))
    /\ UNCHANGED <<dir, idx, raw, df, wdf, frequency, writes>>

\* plot_wind_analysis, both plots saved
WindOk ==
    /\ pc = "wind"
    /\ ~WindSkips(df)
    /\ ~WindMustRaise(df)
    /\ wdf' = DropNa(df)
    /\ frequency' = ValueCounts(DropNa(df))
    /\ writes' = writes \cup {<<idx, OutPath(dir[idx], k)>> : k \in WindKinds}
    /\ df' = CallerTable(df, DropNa(df))
    /\ pc' = "temp"
    /\ log' = Append(log, Event(idx, "wind", "saved"))
    /\ UNCHANGED <<dir, idx, raw>>

\* plot_wind_analysis raises: in dropna or WindroseAxes.bar, before anything
\* is saved, or in pd.cut, after the wind rose is saved (non-numeric WD)
WindFail ==
    /\ pc = "wind"
    /\ ~WindSkips(df)
    /\ WindMayRaise(df)
    /\ wdf' = WindRows(df)
    /\ \E saved \in BOOLEAN :
          /\ saved => ~DropNaRaises(df) /\ HasStrWD(DropNa(df))
          /\ writes' = IF saved THEN writes \cup {<<idx, OutPath(dir[idx], "wind_rose")>>}
                       ELSE writes
    /\ df' = CallerTable(df, WindRows(df))
    /\ pc' = AfterRaise
    /\ log' = Append(log, Event(idx, "wind", "raise"))
    /\ UNCHANGED <<dir, idx, raw, frequency>>

\* plot_temperature_analysis: the files it saves for a table
TempFilesNoGHICheck(t) ==
    IF "RH" \notin t.cols \/ "ModA" \notin t.cols \/ "ModB" \notin t.cols THEN {}
    ELSE {"RH_vs_Temperature", "RH_vs_SolarRadiation"}

TempFiles(t) ==
    IF "RH" \notin t.cols \/ "ModA" \notin t.cols \/ "ModB" \notin t.cols THEN {}
    ELSE IF "GHI" \in t.cols THEN {"RH_vs_Temperature", "RH_vs_SolarRadiation"}
    ELSE {"RH_vs_Temperature"}

\* plot_temperature_analysis(df, base_name)
Temp ==
    /\ pc = "temp"
    /\ writes' = writes \cup {<<idx, OutPath(dir[idx], k)>> : k \in TempFiles(df)}
    /\ pc' = "end"
    /\ log' = Append(log, Event(idx, "temp", IF TempFiles(df) = {} THEN "skipped" ELSE "saved"))
    /\ UNCHANGED <<dir, idx, raw, df, wdf, frequency>>

\* the loop body has ended; the for statement takes the next name.  The
\* table of the file and the locals of the calls are not read again: the
\* next iteration binds df anew before any use
EndBody ==
    /\ pc = "end"
    /\ pc' = "iter"
    /\ idx' = idx + 1
    /\ raw' = NoTable
    /\ df' = NoTable
    /\ wdf' = <<>>
    /\ frequency' = NoFrequency
    /\ UNCHANGED <<dir, writes, log>>

Next ==
    \/ Finish
    \/ SkipFile
    \/ Load
    \/ LoadFail
    \/ Clean
    \/ CleanFail
    \/ WindSkip
    \/ WindOk
    \/ WindFail
    \/ Temp
    \/ EndBody

Spec == Init /\ [][Next]_vars

(* -------------------- clean_data on its own --------------------------- *)

\* values a column of a file may hold when clean_data is called
CleanCols == {"GHI", "DNI", "WS", "WD"}

CleanValues ==
    [c \in CleanCols |->
        CASE c = "GHI" -> {Num(-50), Num(0), Num(100), NaN, Str}
          [] c = "DNI" -> {Num(100)}
          [] c = "WS" -> {Num(-1), Num(3), NaN}
          [] c = "WD" -> {Num(-10), Num(45), NaN}]

RowsOver(C, Values) ==
    {row \in [C -> UNION {Values[c] : c \in C}] : \A c \in C : row[c] \in Values[c]}

\* t is a table over the columns C with at most maxrows rows of such values
IsTableOf(t, C, Values, maxrows) ==
    \E n \in 0..maxrows : \E rows \in [1..n -> RowsOver(C, Values)] :
        t = [cols |-> C, rows |-> rows]

OneFile == << <<"a", "csv">> >>

\* main has read a.csv and is about to call clean_data
InitClean ==
    /\ dir = OneFile
    /\ idx = 1
    /\ pc = "clean"
    /\ \E C \in SUBSET CleanCols \ {{}} : IsTableOf(raw, C, CleanValues, MaxCleanRows)
    /\ df = raw
    /\ wdf = <<>>
    /\ frequency = NoFrequency
    /\ writes = {}
    /\ log = <<Event(1, "load", "ok")>>

NextClean ==
    \/ Clean
    \/ CleanFail

SpecClean == InitClean /\ [][NextClean]_vars

(* ------------------ plot_wind_analysis on its own --------------------- *)

\* wind directions from -15 to 375 in steps of 15, a missing and a
\* non-numeric one; wind speeds
WindValues ==
    [c \in WindCols |->
        CASE c = "WD" -> {Num(15 * k) : k \in -1..25} \cup {NaN, Str}
          [] c = "WS" -> {Num(3), NaN}]

\* main has read and cleaned a.csv and is about to call plot_wind_analysis
InitWind ==
    /\ dir = OneFile
    /\ idx = 1
    /\ pc = "wind"
    /\ \E C \in SUBSET WindCols \ {{}} : IsTableOf(raw, C, WindValues, MaxWindRows)
    /\ df = clean_data(raw)
    /\ wdf = <<>>
    /\ frequency = NoFrequency
    /\ writes = {}
    /\ log = <<Event(1, "load", "ok"), Event(1, "clean", "ok")>>

NextWind ==
    \/ WindSkip
    \/ WindOk
    \/ WindFail

SpecWind == InitWind /\ [][NextWind]_vars

(* ------------------------------ properties ---------------------------- *)

MonitoredColumns == {"GHI", "DNI", "DHI", "ModA", "ModB", "WS", "WSgust", "RH"}

RowNumbers(t) == 1..Len(t.rows)

LastEvent == log[Len(log)]

\* clean_data has returned on the current file and nothing has run since
JustCleaned == log # <<>> /\ LastEvent = Event(idx, "clean", "ok")

\* C1 as stated: after clean_data returns, every cell of every monitored
\* column present in the table is >= 0, whatever it held before (negative,
\* zero, positive or missing).
C1_Original ==
    JustCleaned =>
        \A r \in RowNumbers(df) : \A c \in MonitoredColumns \cap raw.cols :
            Ge0(df.rows[r][c])

\* C1 as amended: after clean_data returns, every cell of every monitored
\* column present in the table that held a number (negative, zero or
\* positive) is >= 0, and a cell that was missing is still missing.
C1_NonMissingNonNegative ==
    JustCleaned =>
        \A r \in RowNumbers(df) : \A c \in MonitoredColumns \cap raw.cols :
            IF raw.rows[r][c].t = "nan" THEN df.rows[r][c].t = "nan"
            ELSE Ge0(df.rows[r][c])

C1_Witness ==
    /\ JustCleaned
    /\ {"GHI", "WS"} \subseteq raw.cols
    /\ Len(raw.rows) = 2
    /\ raw.rows[1]["GHI"] = Num(-50) /\ raw.rows[1]["WS"] = NaN
    /\ raw.rows[2]["GHI"] = Num(0) /\ raw.rows[2]["WS"] = Num(3)
    /\ df.rows[1]["GHI"] = Num(0)

ScenarioCols == {"GHI", "DNI", "WD", "WS"}

ScenarioRow ==
    [c \in ScenarioCols |->
        CASE c = "GHI" -> Num(-50) [] c = "DNI" -> Num(100)
          [] c = "WD" -> Num(45) [] c = "WS" -> Num(3)]

\* C2: after clean_data returns, the Cleaning flag of a row is true iff a
\* monitored column present in the table held a value < 0 in that row
\* before cleaning; the row GHI=-50, DNI=100, WD=45, WS=3 ends with GHI=0
\* and Cleaning true.
C2_CleaningFlag ==
    JustCleaned =>
        /\ "Cleaning" \in df.cols
        /\ \A r \in RowNumbers(df) :
              /\ Truthy(df.rows[r]["Cleaning"]) <=>
                    \E c \in MonitoredColumns \cap raw.cols :
                        raw.rows[r][c].t = "num" /\ raw.rows[r][c].v < 0
              /\ (raw.cols = ScenarioCols /\ raw.rows[r] = ScenarioRow) =>
                    df.rows[r]["GHI"] = Num(0) /\ Truthy(df.rows[r]["Cleaning"])

C2_Witness ==
    /\ JustCleaned
    /\ raw.cols = ScenarioCols
    /\ Len(raw.rows) = 2
    /\ raw.rows[1] = ScenarioRow
    /\ Truthy(df.rows[1]["Cleaning"])
    /\ raw.rows[2]["GHI"] = Num(0) /\ raw.rows[2]["WD"] = Num(-10)
    /\ ~Truthy(df.rows[2]["Cleaning"])

\* C3: clean_data fails only on a non-numeric cell of a monitored column,
\* never because a monitored column is absent; when it returns, the columns
\* are those of the input plus Cleaning, the rows are as many and in the
\* same order, a negative number of a monitored column has become 0 and
\* every other cell is what it was.
C3_FrameEffect ==
    /\ (log # <<>> /\ LastEvent = Event(idx, "clean", "raise")) =>
            \E c \in MonitoredColumns \cap raw.cols : \E r \in RowNumbers(raw) :
                raw.rows[r][c].t = "str"
    /\ JustCleaned =>
          /\ df.cols = raw.cols \cup {"Cleaning"}
          /\ Len(df.rows) = Len(raw.rows)
          /\ \A r \in RowNumbers(raw) : \A c \in raw.cols :
                df.rows[r][c] =
                    IF c \in MonitoredColumns /\ raw.rows[r][c].t = "num" /\ raw.rows[r][c].v < 0
                    THEN Num(0) ELSE raw.rows[r][c]

C3_Witness ==
    /\ JustCleaned
    /\ raw.cols = {"GHI", "WD"}
    /\ Len(raw.rows) = 2
    /\ raw.rows[1]["GHI"] = Num(-50) /\ raw.rows[1]["WD"] = Num(-10)
    /\ raw.rows[2]["GHI"] = NaN /\ raw.rows[2]["WD"] = Num(45)
    /\ df.cols = {"GHI", "WD", "Cleaning"}
    /\ df.rows[1]["WD"] = Num(-10)

WritesOf(i) == {w[2] : w \in {x \in writes : x[1] = i}}

LacksWind(t) == "WD" \notin t.cols \/ "WS" \notin t.cols

\* C4: on a file whose table lacks WD or WS, plot_wind_analysis returns
\* without an error and without a wind file written for that file, then
\* plot_temperature_analysis is called on the same file, and after it main
\* goes on to the remaining names of the folder.
C4_WindSkipped ==
    /\ (log # <<>> /\ LastEvent[1] = idx /\ LastEvent[2] = "wind" /\ LacksWind(df)) =>
          /\ LastEvent[3] = "skipped"
          /\ pc = "temp"
    /\ \A k \in 1..Len(log) :
          (log[k][2] = "wind" /\ log[k][3] = "skipped") =>
              /\ \A path \in WritesOf(log[k][1]) : path[2] \notin WindKinds
              /\ k < Len(log) =>
                    /\ log[k + 1][1] = log[k][1]
                    /\ log[k + 1][2] = "temp"
                    /\ log[k + 1][3] # "raise"
              /\ k + 1 = Len(log) =>
                    /\ pc \in {"end", "iter", "done"}
                    /\ pc # "end" => idx > log[k][1]
              /\ pc = "done" =>
                    \A j \in log[k][1] + 1..Len(dir) :
                        EndsWithCsv(dir[j]) => \E m \in k + 2..Len(log) : log[m][1] = j

C4_Witness ==
    /\ pc = "done"
    /\ Len(log) > 4
    /\ log[3] = Event(1, "wind", "skipped")
    /\ log[4] = Event(1, "temp", "saved")
    /\ log[5] = Event(2, "load", "ok")

\* C5: when plot_temperature_analysis has returned, {base}_RH_vs_Temperature
\* is written for the file iff the table has RH, ModA and ModB, and
\* {base}_RH_vs_SolarRadiation iff it has RH, ModA, ModB and GHI; it returns
\* without an error whichever column is missing.
C5_TemperatureFiles ==
    pc = "end" =>
        /\ LastEvent[1] = idx /\ LastEvent[2] = "temp" /\ LastEvent[3] # "raise"
        /\ <<BaseName(dir[idx]), "RH_vs_Temperature">> \in WritesOf(idx)
              <=> {"RH", "ModA", "ModB"} \subseteq df.cols
        /\ <<BaseName(dir[idx]), "RH_vs_SolarRadiation">> \in WritesOf(idx)
              <=> {"RH", "ModA", "ModB", "GHI"} \subseteq df.cols
        /\ \A path \in WritesOf(idx) : path[2] \in TempKinds => path[1] = BaseName(dir[idx])

C5_Witness ==
    /\ pc = "end"
    /\ {"RH", "ModA", "ModB"} \subseteq df.cols
    /\ "GHI" \notin df.cols
    /\ <<"a", "RH_vs_Temperature">> \in WritesOf(idx)
    /\ <<"a", "RH_vs_SolarRadiation">> \notin WritesOf(idx)

RECURSIVE SumTo(_, _)
SumTo(f, n) == IF n = 0 THEN 0 ELSE f[n] + SumTo(f, n - 1)

WindSaved == log # <<>> /\ LastEvent = Event(idx, "wind", "saved")

\* the wind direction of a row plot_wind_analysis has kept
WD(r) == wdf[r]["WD"].v

\* C6 as stated: the bins are closed on the left, [0,30), [30,60), ...,
\* with 360 in the twelfth; every WD in [0,360] is in exactly one bin.
C6_Original ==
    WindSaved =>
        \A k \in 1..12 :
            frequency[k] =
                Cardinality({r \in 1..Len(wdf) :
                                \/ 30 * (k - 1) <= WD(r) /\ WD(r) < 30 * k
                                \/ k = 12 /\ WD(r) = 360})

\* C6 as amended: WD is binned into 12 bins of 30 degrees with edges 0, 30,
\* ..., 360, closed on the right: the first bin is [0,30] (WD=0 and WD=30
\* are both counted in it), the k-th is (30(k-1), 30k], so WD=360 is
\* counted in the twelfth; every WD in [0,360] is counted in exactly one bin
\* and a WD outside [0,360] in none.
C6_RightClosedBins ==
    WindSaved =>
        /\ \A k \in 1..12 :
              frequency[k] =
                  Cardinality({r \in 1..Len(wdf) :
                                  \/ 30 * (k - 1) < WD(r) /\ WD(r) <= 30 * k
                                  \/ k = 1 /\ WD(r) = 0})
        /\ SumTo(frequency, 12) =
              Cardinality({r \in 1..Len(wdf) : 0 <= WD(r) /\ WD(r) <= 360})

C6_Witness ==
    /\ WindSaved
    /\ Len(wdf) = 2
    /\ wdf[1]["WD"] = Num(30)
    /\ wdf[2]["WD"] = Num(360)
    /\ frequency[1] = 1
    /\ frequency[12] = 1

\* C7 as stated: for two distinct files of one run, the sets of output
\* paths written for them are disjoint.
C7_DisjointOutputs ==
    \A i, j \in 1..Len(dir) : i # j => WritesOf(i) \cap WritesOf(j) = {}

\* C8: once clean_data has returned, the table main holds is the one
\* clean_data returned (same rows, values and Cleaning flags) when
\* plot_wind_analysis has run and when plot_temperature_analysis has run,
\* although plot_wind_analysis drops rows of its own table.
C8_TableUntouched ==
    (log # <<>> /\ LastEvent[1] = idx /\ LastEvent[2] \in {"wind", "temp"}) =>
        /\ df = clean_data(raw)
        /\ "Cleaning" \in df.cols

C8_Witness ==
    /\ pc = "end"
    /\ LastEvent[2] = "temp"
    /\ Len(wdf) = 1
    /\ Len(df.rows) = 2
    /\ Len(raw.rows) = 2

\* C9 as stated: for every .csv file the driver has processed, the summary
\* file {base}_summary.csv has been produced.
C9_SummaryProduced ==
    \A k \in 1..Len(log) :
        log[k][2] = "temp" =>
            <<BaseName(dir[log[k][1]]), "summary">> \in WritesOf(log[k][1])

StepNo(step) ==
    CASE step = "load" -> 1 [] step = "clean" -> 2 [] step = "wind" -> 3 [] step = "temp" -> 4

NoCsvBetween(i, j) == \A m \in i + 1..j - 1 : ~EndsWithCsv(dir[m])

\* C10: the steps run one file at a time in the order load, clean, wind,
\* temperature; a step of the next .csv file starts only after the
\* temperature analysis of the current one; a step that raises is the last
\* step of the run, and nothing is written for a file before its clean_data
\* has returned nor for any later file.
C10_Sequential ==
    /\ \A k \in 1..Len(log) :
          /\ log[k][1] \in 1..Len(dir) /\ EndsWithCsv(dir[log[k][1]])
          /\ k = 1 => log[k][2] = "load" /\ NoCsvBetween(0, log[k][1])
          /\ log[k][3] = "raise" => k = Len(log) /\ pc = "failed"
          /\ k < Len(log) =>
                IF log[k][2] = "temp"
                THEN /\ log[k + 1][2] = "load"
                     /\ log[k + 1][1] > log[k][1]
                     /\ NoCsvBetween(log[k][1], log[k + 1][1])
                ELSE /\ log[k + 1][1] = log[k][1]
                     /\ StepNo(log[k + 1][2]) = StepNo(log[k][2]) + 1
    /\ pc = "failed" => log # <<>> /\ LastEvent[3] = "raise"
    /\ \A w \in writes :
          /\ \E k \in 1..Len(log) : log[k] = Event(w[1], "clean", "ok")
          /\ log # <<>> /\ w[1] <= LastEvent[1]

C10_Witness ==
    /\ pc = "failed"
    /\ Len(dir) = 2
    /\ EndsWithCsv(dir[2])
    /\ LastEvent = Event(1, "wind", "raise")
    /\ WritesOf(1) # {}
    /\ WritesOf(2) = {}

====
